---- MODULE Spec2Model ----
(***************************************************************************)
(* Model of the two content-defined-chunking engines of rsroll:            *)
(*   Bup  (src/src/bup.rs):  64-byte moving-window checksum, u32 digest    *)
(*   Gear (src/src/gear.rs): 64-bit shift-register hash, u64 digest        *)
(*                                                                         *)
(* Machine words are little-endian sequences of 16-bit limbs, so that the  *)
(* u32 and u64 arithmetic of the source keeps its width: a u32 is two      *)
(* limbs, a u64 is four.  Rust slices are 0-based; a Rust index i is the   *)
(* TLA+ index i + 1 of the sequence that models the slice.                 *)
(***************************************************************************)
EXTENDS Integers, Sequences, FiniteSets, TLC

-----------------------------------------------------------------------------
(* Bounds of the model *)

\* longest buffer of the exhaustively enumerated short buffers
MaxLen == 1
\* number of calls made on one engine after its construction
MaxOps == 2

-----------------------------------------------------------------------------
(* Fixed-width words *)

\* width of a limb, and the number of values of a limb
LimbBits == 16
Limb == 2 ^ LimbBits

Bytes == {0, 1, 255}

Pow2(n) == 2 ^ n

\* The element of a one-element set.  The({F(v) : v \in {e}}) is F(e) with e
\* evaluated once, however often F uses it.
The(S) == CHOOSE v \in S : TRUE

WZero(n) == [i \in 1..n |-> 0]
WOne(n) == [i \in 1..n |-> IF i = 1 THEN 1 ELSE 0]
WOnes(n) == [i \in 1..n |-> Limb - 1]

\* x << n and x >> n on a word, for n below the width of the word (the bits
\* shifted out are dropped)
Shl(x, n) ==
    LET q == n \div LimbBits
        r == n % LimbBits
    IN  [i \in 1..Len(x) |->
           IF i - q < 1 THEN 0
           ELSE ((x[i - q] * Pow2(r)) % Limb)
                + (IF i - q - 1 >= 1 THEN x[i - q - 1] \div Pow2(LimbBits - r) ELSE 0)]

Shr(x, n) ==
    LET q == n \div LimbBits
        r == n % LimbBits
    IN  [i \in 1..Len(x) |->
           IF i + q > Len(x) THEN 0
           ELSE (x[i + q] \div Pow2(r))
                + (IF i + q + 1 <= Len(x)
                   THEN (x[i + q + 1] % Pow2(r)) * Pow2(LimbBits - r) ELSE 0)]

\* bitwise and / or of two 4-bit values, tabulated once
RECURSIVE AndBits(_, _)
AndBits(a, b) == IF a = 0 \/ b = 0 THEN 0
                 ELSE ((a % 2) * (b % 2)) + 2 * AndBits(a \div 2, b \div 2)

AndNibble == [a \in 0..15 |-> [b \in 0..15 |-> AndBits(a, b)]]
OrNibble == [a \in 0..15 |-> [b \in 0..15 |-> a + b - AndBits(a, b)]]

\* bitwise and / or of two limbs, nibble by nibble
And16(a, b) ==
    AndNibble[a % 16][b % 16]
    + 16 * AndNibble[(a \div 16) % 16][(b \div 16) % 16]
    + 256 * AndNibble[(a \div 256) % 16][(b \div 256) % 16]
    + 4096 * AndNibble[a \div 4096][b \div 4096]

Or16(a, b) ==
    OrNibble[a % 16][b % 16]
    + 16 * OrNibble[(a \div 16) % 16][(b \div 16) % 16]
    + 256 * OrNibble[(a \div 256) % 16][(b \div 256) % 16]
    + 4096 * OrNibble[a \div 4096][b \div 4096]

WAnd(x, y) == [i \in 1..Len(x) |-> And16(x[i], y[i])]
WOr(x, y) == [i \in 1..Len(x) |-> Or16(x[i], y[i])]
WNot(x) == [i \in 1..Len(x) |-> Limb - 1 - x[i]]

RECURSIVE Carry(_, _, _)
Carry(x, y, i) == IF i = 0 THEN 0 ELSE (x[i] + y[i] + Carry(x, y, i - 1)) \div Limb

\* u64::wrapping_add, and the same sum on any word width
WrappingAdd(x, y) == [i \in 1..Len(x) |-> (x[i] + y[i] + Carry(x, y, i - 1)) % Limb]

\* x - y for x >= y (two's complement; the callers never borrow out of the word)
WSub(x, y) == WrappingAdd(x, WrappingAdd(WNot(y), WOne(Len(x))))

\* bit j (0 = least significant) of a word
Bit(x, j) == (x[(j \div LimbBits) + 1] \div Pow2(j % LimbBits)) % 2

\* `v as u32` for a usize v: the low 32 bits
AsU32(v) == <<v % Limb, (v \div Limb) % Limb>>

-----------------------------------------------------------------------------
(* Bup: src/src/bup.rs *)

WINDOW_BITS == 6
WINDOW_SIZE == Pow2(WINDOW_BITS)
CHAR_OFFSET == 31
Bup_CHUNK_BITS == 13
\* bound of the assert in Bup::new_with_chunk_bits
Bup_MAX_CHUNK_BITS == 32

Bup_default ==
    [s1 |-> WINDOW_SIZE * CHAR_OFFSET,
     s2 |-> WINDOW_SIZE * (WINDOW_SIZE - 1) * CHAR_OFFSET,
     window |-> [i \in 0..(WINDOW_SIZE - 1) |-> 0],
     wofs |-> 0,
     chunk_bits |-> Bup_CHUNK_BITS]

Bup_new == Bup_default

\* assert!(chunk_bits < 32)
Bup_new_with_chunk_bits_asserts(chunk_bits) == ~(chunk_bits < Bup_MAX_CHUNK_BITS)

Bup_new_with_chunk_bits(chunk_bits) == [Bup_default EXCEPT !.chunk_bits = chunk_bits]

\* the four assignments of add(), as the integers they compute
Bup_add_steps(self, drop, add) ==
    LET s1a == self.s1 + add
        s1b == s1a - drop
        s2a == self.s2 + s1b
        s2b == s2a - WINDOW_SIZE * (drop + CHAR_OFFSET)
    IN  <<s1a, s1b, s2a, s2b>>

\* mutant: s1 keeps the byte that left the window
Bup_add_keeps_dropped(self, drop, add) ==
    LET s1a == self.s1 + add
        s2a == self.s2 + s1a
    IN  [self EXCEPT !.s1 = s1a, !.s2 = s2a - WINDOW_SIZE * (drop + CHAR_OFFSET)]

Bup_add(self, drop, add) ==
    LET st == Bup_add_steps(self, drop, add)
    IN  [self EXCEPT !.s1 = st[2], !.s2 = st[4]]

\* mutant: the write offset advances without wrapping around
Bup_roll_byte_no_wrap(self, newch) ==
    LET prevch == self.window[self.wofs]
        added == Bup_add(self, prevch, newch)
    IN  [added EXCEPT !.window = [@ EXCEPT ![self.wofs] = newch],
                      !.wofs = self.wofs + 1]

Bup_roll_byte(self, newch) ==
    LET prevch == self.window[self.wofs]
        added == Bup_add(self, prevch, newch)
    IN  [added EXCEPT !.window = [@ EXCEPT ![self.wofs] = newch],
                      !.wofs = (self.wofs + 1) % WINDOW_SIZE]

\* ((self.s1 as u32) << 16) | ((self.s2 as u32) & 0xffff)
Bup_digest(self) ==
    WOr(Shl(AsU32(self.s1), 16), WAnd(AsU32(self.s2), <<Limb - 1, 0>>))

\* mutant: reset leaves the bytes of the window where they are
Bup_reset_keeps_window(self) ==
    [Bup_default EXCEPT !.chunk_bits = self.chunk_bits, !.window = self.window]

\* mutant: reset to the default engine, chunk_bits included
Bup_reset_to_default(self) == Bup_default

Bup_reset(self) == [Bup_default EXCEPT !.chunk_bits = self.chunk_bits]

\* mutant: the mask without its `- 1`
Bup_chunk_mask_one_bit(self) == Shl(WOne(2), self.chunk_bits)

\* (1 << self.chunk_bits) - 1, a u32
Bup_chunk_mask(self) == WSub(Shl(WOne(2), self.chunk_bits), WOne(2))

NoChunk(self) == [self |-> self, found |-> FALSE, prefix |-> <<>>, suffix |-> <<>>]

\* the loop of find_chunk over the indices lo..hi-1 of buf, in order; res is the
\* result so far, and a result that is found has left the loop
RECURSIVE Bup_find_chunk_loop(_, _, _, _, _)
Bup_find_chunk_loop(res, buf, lo, hi, chunk_mask) ==
    IF res.found \/ lo >= hi THEN res
    ELSE IF hi = lo + 1
    THEN The({ IF WAnd(Bup_digest(rolled), chunk_mask) = chunk_mask
               THEN [self |-> Bup_reset(rolled), found |-> TRUE,
                     prefix |-> SubSeq(buf, 1, lo + 1),
                     suffix |-> SubSeq(buf, lo + 2, Len(buf))]
               ELSE NoChunk(rolled)
               : rolled \in {Bup_roll_byte(res.self, buf[lo + 1])} })
    ELSE The({ Bup_find_chunk_loop(m, buf, (lo + hi) \div 2, hi, chunk_mask)
               : m \in {Bup_find_chunk_loop(res, buf, lo, (lo + hi) \div 2, chunk_mask)} })

Bup_find_chunk(self, buf) ==
    The({ Bup_find_chunk_loop(NoChunk(self), buf, 0, Len(buf), chunk_mask)
          : chunk_mask \in {Bup_chunk_mask(self)} })

RECURSIVE Bup_count_bits_loop(_, _)
Bup_count_bits_loop(rsum, bits) ==
    The({ IF WAnd(shifted, WOne(2)) = WZero(2) THEN bits
          ELSE Bup_count_bits_loop(shifted, bits + 1)
          : shifted \in {Shr(rsum, 1)} })

\* mutant: the loop tests the low bit before it shifts
RECURSIVE Bup_count_bits_test_first_loop(_, _)
Bup_count_bits_test_first_loop(rsum, bits) ==
    The({ IF WAnd(r, WOne(2)) = WZero(2) THEN bits
          ELSE Bup_count_bits_test_first_loop(Shr(r, 1), bits + 1)
          : r \in {rsum} })

Bup_count_bits_test_first(self) ==
    Bup_count_bits_test_first_loop(Shr(Bup_digest(self), self.chunk_bits), self.chunk_bits)

Bup_count_bits(self) ==
    Bup_count_bits_loop(Shr(Bup_digest(self), self.chunk_bits), self.chunk_bits)

\* RollingHash::roll, the trait's default method (the trait is declared outside
\* the sources at hand): roll_byte for every byte of the buffer, in order
RECURSIVE Bup_roll_from(_, _, _, _)
Bup_roll_from(self, buf, lo, hi) ==
    IF lo >= hi THEN self
    ELSE IF hi = lo + 1 THEN Bup_roll_byte(self, buf[lo + 1])
    ELSE The({ Bup_roll_from(m, buf, (lo + hi) \div 2, hi)
               : m \in {Bup_roll_from(self, buf, lo, (lo + hi) \div 2)} })

Bup_roll(self, buf) == Bup_roll_from(self, buf, 0, Len(buf))

-----------------------------------------------------------------------------
(* Gear: src/src/gear.rs *)

Gear_CHUNK_BITS == 13
DIGEST_SIZE == 64
\* bound of the assert in Gear::new_with_chunk_bits
Gear_MAX_CHUNK_BITS == 32

\* The table G of _gear_rand.rs, one 64-bit constant per byte value.  The file
\* is not among the sources; these entries stand for it on the bytes of the
\* model:  G[0] = 0x0003A5C719E24B6D, G[1] = 0x9D4F21B863C07EA2,
\*         G[255] = 0xC561BC8F387F02BC
G(b) ==
    CASE b = 0 -> <<19309, 6626, 42439, 3>>
      [] b = 1 -> <<32418, 25536, 8632, 40271>>
      [] OTHER -> <<700, 14463, 48271, 50529>>

Gear_default == [digest |-> WZero(4), chunk_bits |-> Gear_CHUNK_BITS]

Gear_new == Gear_default

\* assert!(chunk_bits < 32)
Gear_new_with_chunk_bits_asserts(chunk_bits) == ~(chunk_bits < Gear_MAX_CHUNK_BITS)

Gear_new_with_chunk_bits(chunk_bits) == [Gear_default EXCEPT !.chunk_bits = chunk_bits]

\* mutant: the digest is shifted by two bits for every byte
Gear_roll_byte_shift_two(self, b) ==
    [self EXCEPT !.digest = WrappingAdd(Shl(self.digest, 2), G(b))]

Gear_roll_byte(self, b) ==
    [self EXCEPT !.digest = WrappingAdd(Shl(self.digest, 1), G(b))]

\* the closure of roll over the indices lo..hi-1 of buf, on the local digest
RECURSIVE Gear_roll_from(_, _, _, _)
Gear_roll_from(digest, buf, lo, hi) ==
    IF lo >= hi THEN digest
    ELSE IF hi = lo + 1 THEN WrappingAdd(Shl(digest, 1), G(buf[lo + 1]))
    ELSE The({ Gear_roll_from(m, buf, (lo + hi) \div 2, hi)
               : m \in {Gear_roll_from(digest, buf, lo, (lo + hi) \div 2)} })

\* mutant: the local digest starts from zero instead of self.digest
Gear_roll_from_zero(self, buf) ==
    [self EXCEPT !.digest = Gear_roll_from(WZero(4), buf, 0, Len(buf))]

Gear_roll(self, buf) ==
    [self EXCEPT !.digest = Gear_roll_from(self.digest, buf, 0, Len(buf))]

Gear_digest(self) == self.digest

\* mutant: reset leaves the digest as it is
Gear_reset_keeps_digest(self) == self

Gear_reset(self) == [Gear_default EXCEPT !.chunk_bits = self.chunk_bits]

\* the u64 whose top n bits are set and all others clear
TopMask(n) == WNot(Shr(WOnes(4), n))

\* DIGEST_SIZE as u32 - self.chunk_bits, the shift amount of find_chunk's mask
Gear_find_chunk_shift(self) == DIGEST_SIZE - self.chunk_bits

\* `!0u64 << n` with n >= 64: "attempt to shift left with overflow" when the
\* build checks overflow; without the checks the amount is taken modulo 64
Gear_find_chunk_overflows(self) == Gear_find_chunk_shift(self) >= DIGEST_SIZE

Gear_find_chunk_mask_of(self) ==
    Shl(WNot(WZero(4)), Gear_find_chunk_shift(self) % DIGEST_SIZE)

\* Predicates a caller can pass to find_chunk_edge_cond, by name
EdgeConds == {"top_bits_zero", "odd"}

Cond(cond, self) ==
    CASE cond = "top_bits_zero" ->
             WAnd(Gear_digest(self), TopMask(self.chunk_bits)) = WZero(4)
      [] OTHER -> Bit(Gear_digest(self), 0) = 1

\* The three search loops keep the local variable `digest` beside self: st is
\* [self, digest, found, prefix, suffix], and a state that is found has
\* returned.  Each loop runs over the indices lo..hi-1 of buf, in order.
Scan(self) ==
    [self |-> self, digest |-> self.digest, found |-> FALSE,
     prefix |-> <<>>, suffix |-> <<>>]

\* mutant: the suffix starts at the boundary byte, &buf[i..]
Some_suffix_from_boundary(self, buf, i) ==
    [self |-> self, digest |-> self.digest, found |-> TRUE,
     prefix |-> SubSeq(buf, 1, i + 1), suffix |-> SubSeq(buf, i + 1, Len(buf))]

Some(self, buf, i) ==
    [self |-> self, digest |-> self.digest, found |-> TRUE,
     prefix |-> SubSeq(buf, 1, i + 1), suffix |-> SubSeq(buf, i + 2, Len(buf))]

\* mutant: the loop ends without storing the local digest
Returned_digest_dropped(st) ==
    IF st.found
    THEN [self |-> st.self, found |-> TRUE, prefix |-> st.prefix, suffix |-> st.suffix]
    ELSE NoChunk(st.self)

\* after the loop: `self.digest = digest; None`, or the value returned from it
Returned(st) ==
    IF st.found
    THEN [self |-> st.self, found |-> TRUE, prefix |-> st.prefix, suffix |-> st.suffix]
    ELSE NoChunk([st.self EXCEPT !.digest = st.digest])

RECURSIVE Gear_find_chunk_edge_cond_loop(_, _, _, _, _)
Gear_find_chunk_edge_cond_loop(st, buf, lo, hi, cond) ==
    IF st.found \/ lo >= hi THEN st
    ELSE IF hi = lo + 1
    THEN The({ IF Cond(cond, [st.self EXCEPT !.digest = d])
               THEN Some(Gear_reset([st.self EXCEPT !.digest = d]), buf, lo)
               ELSE [st EXCEPT !.self = [st.self EXCEPT !.digest = d], !.digest = d]
               : d \in {WrappingAdd(Shl(st.digest, 1), G(buf[lo + 1]))} })
    ELSE The({ Gear_find_chunk_edge_cond_loop(m, buf, (lo + hi) \div 2, hi, cond)
               : m \in {Gear_find_chunk_edge_cond_loop(st, buf, lo, (lo + hi) \div 2, cond)} })

Gear_find_chunk_edge_cond(self, buf, cond) ==
    Returned(Gear_find_chunk_edge_cond_loop(Scan(self), buf, 0, Len(buf), cond))

RECURSIVE Gear_find_chunk_mask_loop(_, _, _, _, _)
Gear_find_chunk_mask_loop(st, buf, lo, hi, mask) ==
    IF st.found \/ lo >= hi THEN st
    ELSE IF hi = lo + 1
    THEN The({ IF WAnd(d, mask) = WZero(4)
               THEN Some(Gear_reset(st.self), buf, lo)
               ELSE [st EXCEPT !.digest = d]
               : d \in {WrappingAdd(Shl(st.digest, 1), G(buf[lo + 1]))} })
    ELSE The({ Gear_find_chunk_mask_loop(m, buf, (lo + hi) \div 2, hi, mask)
               : m \in {Gear_find_chunk_mask_loop(st, buf, lo, (lo + hi) \div 2, mask)} })

Gear_find_chunk_mask(self, buf, mask) ==
    Returned(Gear_find_chunk_mask_loop(Scan(self), buf, 0, Len(buf), mask))

RECURSIVE Gear_find_chunk_loop(_, _, _, _, _)
Gear_find_chunk_loop(st, buf, lo, hi, mask) ==
    IF st.found \/ lo >= hi THEN st
    ELSE IF hi = lo + 1
    THEN The({ IF WAnd(d, mask) = WZero(4)
               THEN Some(Gear_reset(st.self), buf, lo)
               ELSE [st EXCEPT !.digest = d]
               : d \in {WrappingAdd(Shl(st.digest, 1), G(buf[lo + 1]))} })
    ELSE The({ Gear_find_chunk_loop(m, buf, (lo + hi) \div 2, hi, mask)
               : m \in {Gear_find_chunk_loop(st, buf, lo, (lo + hi) \div 2, mask)} })

Gear_find_chunk(self, buf) ==
    The({ Returned(Gear_find_chunk_loop(Scan(self), buf, 0, Len(buf), mask))
          : mask \in {Gear_find_chunk_mask_of(self)} })

-----------------------------------------------------------------------------
(* Inputs *)

Fill(b, n) == [i \in 1..n |-> b]

\* every buffer of at most MaxLen bytes
ShortBufs == UNION {[1..n -> Bytes] : n \in 0..MaxLen}

\* buffers that fill the window of Bup up to its last slot, or completely
LongBufs == {Fill(255, WINDOW_SIZE), Fill(1, WINDOW_SIZE - 1)}

BupBufs == ShortBufs \cup LongBufs

\* a buffer after which the digest of a fresh Gear is zero again:
\* 2 * G(1) + G(255) = 0 modulo 2^64
ZeroingBufs == {<<1, 255>>}

GearBufs == ShortBufs \cup ZeroingBufs

\* chunk_bits a caller passes to new_with_chunk_bits
ChunkBitsArgs == {0, 2, 31, 32, 63, 64}

\* masks a caller passes to find_chunk_mask
MaskArgs(self) == {TopMask(self.chunk_bits), WOne(4)}

-----------------------------------------------------------------------------
(* State *)

VARIABLES
    kind,       \* "none" before construction, then "Bup" or "Gear"
    eng,        \* the engine: a Bup record or a Gear record
    panicked,   \* "" or the reason the last call panicked
    last,       \* the last call: operation, engine before it, arguments, result
    prev,       \* the call before the last one, in brief
    hist,       \* the bytes rolled since construction or the last reset
    ops,        \* number of calls made on the engine
    test,       \* tests::effective_window_size: its locals and its position
    bench       \* a caller's `while let Some(..) = cdc.find_chunk(buf)` loop

vars == <<kind, eng, panicked, last, prev, hist, ops, test, bench>>

NoEngine == [chunk_bits |-> 0]

\* a vector vec![byte; len]
Vec(byte, len) == [byte |-> byte, len |-> len]

\* no caller loop is running
NoBench ==
    [pc |-> "none", kind |-> "none", cdc |-> NoEngine, v |-> <<>>, buf |-> <<>>,
     chunks |-> <<>>]

\* the test is not running
NoTest ==
    [pc |-> "none", ones |-> Vec(0, 0), zeroes |-> Vec(0, 0),
     gear |-> NoEngine, digest |-> WZero(4), i |-> 0]

Call(op, pre, buf, arg, res, ret) ==
    [op |-> op, pre |-> pre, buf |-> buf, arg |-> arg,
     found |-> res.found, prefix |-> res.prefix, suffix |-> res.suffix, ret |-> ret]

NoCall == Call("none", NoEngine, <<>>, 0, NoChunk(NoEngine), 0)

SearchOps == {"find_chunk", "find_chunk_mask", "find_chunk_edge_cond"}

\* what is kept of the call before the last one: whether it was a boundary
\* search, and whether the search found a boundary
Brief(call) ==
    IF call.op \in SearchOps
    THEN [op |-> IF call.op = "find_chunk" THEN "find_chunk" ELSE "search",
          found |-> call.found]
    ELSE [op |-> "other", found |-> FALSE]

Init ==
    /\ kind = "none"
    /\ eng = NoEngine
    /\ panicked = ""
    /\ last = NoCall
    /\ prev = Brief(NoCall)
    /\ hist = <<>>
    /\ ops = 0
    /\ test = NoTest
    /\ bench = NoBench

Ready(k) == kind = k /\ panicked = "" /\ ops < MaxOps

-----------------------------------------------------------------------------
(* Checked arithmetic of Bup::add: usize += and -= abort ("attempt to subtract *)
(* with overflow") when the build checks overflow and a result leaves the word *)

Bup_add_in_range(self, drop, add) ==
    \A k \in 1..4 : Bup_add_steps(self, drop, add)[k] \in 0..2147483647

RECURSIVE Bup_roll_in_range(_, _, _, _)
Bup_roll_in_range(st, buf, lo, hi) ==
    IF lo >= hi THEN st
    ELSE IF hi = lo + 1
    THEN [self |-> Bup_roll_byte(st.self, buf[lo + 1]),
          ok |-> st.ok /\ Bup_add_in_range(st.self, st.self.window[st.self.wofs], buf[lo + 1])]
    ELSE The({ Bup_roll_in_range(m, buf, (lo + hi) \div 2, hi)
               : m \in {Bup_roll_in_range(st, buf, lo, (lo + hi) \div 2)} })

ArithPanic(self, buf) ==
    IF Bup_roll_in_range([self |-> self, ok |-> TRUE], buf, 0, Len(buf)).ok THEN "" ELSE "arith"

-----------------------------------------------------------------------------
(* Construction *)

BupNew ==
    /\ kind = "none"
    /\ kind' = "Bup"
    /\ eng' = Bup_new
    /\ panicked' = ""
    /\ last' = Call("new", NoEngine, <<>>, Bup_CHUNK_BITS, NoChunk(NoEngine), 0)
    /\ prev' = Brief(last)
    /\ UNCHANGED <<hist, ops>>
    /\ UNCHANGED <<test, bench>>

BupNewWithChunkBits(chunk_bits) ==
    /\ kind = "none"
    /\ kind' = "Bup"
    /\ IF Bup_new_with_chunk_bits_asserts(chunk_bits)
       THEN eng' = NoEngine /\ panicked' = "assert"
       ELSE eng' = Bup_new_with_chunk_bits(chunk_bits) /\ panicked' = ""
    /\ last' = Call("new_with_chunk_bits", NoEngine, <<>>, chunk_bits, NoChunk(NoEngine), 0)
    /\ prev' = Brief(last)
    /\ UNCHANGED <<hist, ops>>
    /\ UNCHANGED <<test, bench>>

GearNew ==
    /\ kind = "none"
    /\ kind' = "Gear"
    /\ eng' = Gear_new
    /\ panicked' = ""
    /\ last' = Call("new", NoEngine, <<>>, Gear_CHUNK_BITS, NoChunk(NoEngine), 0)
    /\ prev' = Brief(last)
    /\ UNCHANGED <<hist, ops>>
    /\ UNCHANGED <<test, bench>>

GearNewWithChunkBits(chunk_bits) ==
    /\ kind = "none"
    /\ kind' = "Gear"
    /\ IF Gear_new_with_chunk_bits_asserts(chunk_bits)
       THEN eng' = NoEngine /\ panicked' = "assert"
       ELSE eng' = Gear_new_with_chunk_bits(chunk_bits) /\ panicked' = ""
    /\ last' = Call("new_with_chunk_bits", NoEngine, <<>>, chunk_bits, NoChunk(NoEngine), 0)
    /\ prev' = Brief(last)
    /\ UNCHANGED <<hist, ops>>
    /\ UNCHANGED <<test, bench>>

-----------------------------------------------------------------------------
(* Calls on a Bup engine *)

BupRollByte(b) ==
    /\ Ready("Bup")
    /\ eng' = Bup_roll_byte(eng, b)
    /\ panicked' = ArithPanic(eng, <<b>>)
    /\ last' = Call("roll_byte", eng, <<b>>, b, NoChunk(eng), 0)
    /\ prev' = Brief(last)
    /\ hist' = Append(hist, b)
    /\ ops' = ops + 1
    /\ UNCHANGED kind
    /\ UNCHANGED <<test, bench>>

BupRoll(buf) ==
    /\ Ready("Bup")
    /\ eng' = Bup_roll(eng, buf)
    /\ panicked' = ArithPanic(eng, buf)
    /\ last' = Call("roll", eng, buf, 0, NoChunk(eng), 0)
    /\ prev' = Brief(last)
    /\ hist' = hist \o buf
    /\ ops' = ops + 1
    /\ UNCHANGED kind
    /\ UNCHANGED <<test, bench>>

BupReset ==
    /\ Ready("Bup")
    /\ eng' = Bup_reset(eng)
    /\ last' = Call("reset", eng, <<>>, 0, NoChunk(eng), 0)
    /\ prev' = Brief(last)
    /\ hist' = <<>>
    /\ ops' = ops + 1
    /\ UNCHANGED <<kind, panicked>>
    /\ UNCHANGED <<test, bench>>

BupFindChunk(buf) ==
    /\ Ready("Bup")
    /\ \E res \in {Bup_find_chunk(eng, buf)} :
           /\ eng' = res.self
           /\ panicked' = ArithPanic(eng, IF res.found THEN res.prefix ELSE buf)
           /\ last' = Call("find_chunk", eng, buf, 0, res, 0)
           /\ prev' = Brief(last)
           /\ hist' = IF res.found THEN <<>> ELSE hist \o buf
    /\ ops' = ops + 1
    /\ UNCHANGED kind
    /\ UNCHANGED <<test, bench>>

BupCountBits ==
    /\ Ready("Bup")
    /\ last' = Call("count_bits", eng, <<>>, 0, NoChunk(eng), Bup_count_bits(eng))
    /\ prev' = Brief(last)
    /\ ops' = ops + 1
    /\ UNCHANGED <<kind, eng, panicked, hist>>
    /\ UNCHANGED <<test, bench>>

-----------------------------------------------------------------------------
(* Calls on a Gear engine *)

GearRollByte(b) ==
    /\ Ready("Gear")
    /\ eng' = Gear_roll_byte(eng, b)
    /\ last' = Call("roll_byte", eng, <<b>>, b, NoChunk(eng), 0)
    /\ prev' = Brief(last)
    /\ hist' = Append(hist, b)
    /\ ops' = ops + 1
    /\ UNCHANGED <<kind, panicked>>
    /\ UNCHANGED <<test, bench>>

GearRoll(buf) ==
    /\ Ready("Gear")
    /\ eng' = Gear_roll(eng, buf)
    /\ last' = Call("roll", eng, buf, 0, NoChunk(eng), 0)
    /\ prev' = Brief(last)
    /\ hist' = hist \o buf
    /\ ops' = ops + 1
    /\ UNCHANGED <<kind, panicked>>
    /\ UNCHANGED <<test, bench>>

GearReset ==
    /\ Ready("Gear")
    /\ eng' = Gear_reset(eng)
    /\ last' = Call("reset", eng, <<>>, 0, NoChunk(eng), 0)
    /\ prev' = Brief(last)
    /\ hist' = <<>>
    /\ ops' = ops + 1
    /\ UNCHANGED <<kind, panicked>>
    /\ UNCHANGED <<test, bench>>

\* find_chunk in a build that does not check overflow, or with a shift amount
\* below the word width
GearFindChunk(buf) ==
    /\ Ready("Gear")
    /\ \E res \in {Gear_find_chunk(eng, buf)} :
           /\ eng' = res.self
           /\ last' = Call("find_chunk", eng, buf, 0, res, 0)
           /\ prev' = Brief(last)
           /\ hist' = IF res.found THEN <<>> ELSE hist \o buf
    /\ ops' = ops + 1
    /\ UNCHANGED <<kind, panicked>>
    /\ UNCHANGED <<test, bench>>

\* find_chunk in a build that checks overflow, when the mask's shift amount
\* reaches the word width: the call panics before it reads the buffer
GearFindChunkOverflow(buf) ==
    /\ Ready("Gear")
    /\ Gear_find_chunk_overflows(eng)
    /\ panicked' = "shift"
    /\ last' = Call("find_chunk", eng, buf, 0, NoChunk(eng), 0)
    /\ prev' = Brief(last)
    /\ ops' = ops + 1
    /\ UNCHANGED <<kind, eng, hist>>
    /\ UNCHANGED <<test, bench>>

GearFindChunkMask(buf, mask) ==
    /\ Ready("Gear")
    /\ \E res \in {Gear_find_chunk_mask(eng, buf, mask)} :
           /\ eng' = res.self
           /\ last' = Call("find_chunk_mask", eng, buf, mask, res, 0)
           /\ prev' = Brief(last)
           /\ hist' = IF res.found THEN <<>> ELSE hist \o buf
    /\ ops' = ops + 1
    /\ UNCHANGED <<kind, panicked>>
    /\ UNCHANGED <<test, bench>>

GearFindChunkEdgeCond(buf, cond) ==
    /\ Ready("Gear")
    /\ \E res \in {Gear_find_chunk_edge_cond(eng, buf, cond)} :
           /\ eng' = res.self
           /\ last' = Call("find_chunk_edge_cond", eng, buf, cond, res, 0)
           /\ prev' = Brief(last)
           /\ hist' = IF res.found THEN <<>> ELSE hist \o buf
    /\ ops' = ops + 1
    /\ UNCHANGED <<kind, panicked>>
    /\ UNCHANGED <<test, bench>>

-----------------------------------------------------------------------------

Next ==
    \/ BupNew
    \/ \E cb \in ChunkBitsArgs : BupNewWithChunkBits(cb)
    \/ GearNew
    \/ \E cb \in ChunkBitsArgs : GearNewWithChunkBits(cb)
    \/ \E b \in Bytes : BupRollByte(b)
    \/ \E buf \in BupBufs : BupRoll(buf)
    \/ BupReset
    \/ \E buf \in BupBufs : BupFindChunk(buf)
    \/ BupCountBits
    \/ \E b \in Bytes : GearRollByte(b)
    \/ \E buf \in GearBufs : GearRoll(buf)
    \/ GearReset
    \/ \E buf \in GearBufs : GearFindChunk(buf)
    \/ \E buf \in GearBufs : GearFindChunkOverflow(buf)
    \/ \E buf \in GearBufs : \E mask \in MaskArgs(eng) : GearFindChunkMask(buf, mask)
    \/ \E buf \in GearBufs : \E cond \in EdgeConds : GearFindChunkEdgeCond(buf, cond)

Spec == Init /\ [][Next]_vars

-----------------------------------------------------------------------------
(* The caller loop of the benchmarks (bup_perf_1mb, perf_1mb_004k_chunks, ...): *)
(*     let mut cdc = <engine>; let mut buf = v.as_slice();                      *)
(*     while let Some((_last, rest)) = cdc.find_chunk(buf) { buf = rest; }      *)
(* for any engine that construction accepts and a set of buffers.  The chunks   *)
(* the loop drops (_last) are kept in bench.chunks.                             *)

\* chunk_bits of the engines the benchmarks construct
BenchChunkBits == {12, Gear_CHUNK_BITS, 16}

BenchEngines ==
    {[kind |-> "Bup", cdc |-> Bup_new_with_chunk_bits(cb)] :
        cb \in {c \in ChunkBitsArgs \cup {Bup_CHUNK_BITS} :
                    ~Bup_new_with_chunk_bits_asserts(c)}}
    \cup
    {[kind |-> "Gear", cdc |-> Gear_new_with_chunk_bits(cb)] :
        cb \in {c \in ChunkBitsArgs \cup BenchChunkBits :
                    ~Gear_new_with_chunk_bits_asserts(c)}}

BenchBufs == ShortBufs \cup ZeroingBufs \cup LongBufs \cup {Fill(0, 3)}

BenchInit ==
    /\ kind = "none"
    /\ eng = NoEngine
    /\ panicked = ""
    /\ last = NoCall
    /\ prev = Brief(NoCall)
    /\ hist = <<>>
    /\ ops = 0
    /\ test = NoTest
    /\ \E e \in BenchEngines : \E v \in BenchBufs :
           bench = [pc |-> "while", kind |-> e.kind, cdc |-> e.cdc, v |-> v, buf |-> v,
                    chunks |-> <<>>]

\* cdc.find_chunk(buf) as it returns
BenchFindChunk(b) ==
    IF b.kind = "Bup" THEN Bup_find_chunk(b.cdc, b.buf) ELSE Gear_find_chunk(b.cdc, b.buf)

\* one evaluation of the loop's condition, and the body when it matches
BenchWhileLet ==
    /\ bench.pc = "while"
    /\ \E res \in {BenchFindChunk(bench)} :
           IF bench.kind = "Bup"
              /\ ArithPanic(bench.cdc, IF res.found THEN res.prefix ELSE bench.buf) # ""
           THEN bench' = [bench EXCEPT !.pc = "panicked"]
           ELSE IF res.found
           THEN bench' = [bench EXCEPT !.cdc = res.self, !.buf = res.suffix,
                                       !.chunks = Append(@, res.prefix)]
           ELSE bench' = [bench EXCEPT !.cdc = res.self, !.pc = "done"]
    /\ UNCHANGED <<kind, eng, panicked, last, prev, hist, ops, test>>

\* the same in a build that checks overflow, when the shift amount of Gear's
\* mask reaches the word width: find_chunk panics
BenchWhileLetOverflow ==
    /\ bench.pc = "while"
    /\ bench.kind = "Gear"
    /\ Gear_find_chunk_overflows(bench.cdc)
    /\ bench' = [bench EXCEPT !.pc = "panicked"]
    /\ UNCHANGED <<kind, eng, panicked, last, prev, hist, ops, test>>

BenchNext ==
    \/ BenchWhileLet
    \/ BenchWhileLetOverflow

BenchSpec == BenchInit /\ [][BenchNext]_vars

\* the loop is not stopped from outside: a call that can be made is made
BenchFairSpec == BenchSpec /\ WF_vars(BenchNext)

-----------------------------------------------------------------------------
(* tests::effective_window_size of src/src/gear.rs, its two vectors drawn    *)
(* from a set that holds the test's own: vec![0x1; 1024] and vec![0x0; 1024] *)

\* length of the test's vectors
VecLen == 1024
\* the index the test asserts the first matching digest at
ExpectedIndex == 63

AsBuf(vec) == Fill(vec.byte, vec.len)

OnesVecs == {Vec(b, n) : b \in Bytes, n \in {2, WINDOW_SIZE, VecLen}}
ZeroesVecs == {Vec(b, n) : b \in Bytes, n \in {0, 1, WINDOW_SIZE, VecLen}}

TestInit ==
    /\ kind = "none"
    /\ eng = NoEngine
    /\ panicked = ""
    /\ last = NoCall
    /\ prev = Brief(NoCall)
    /\ hist = <<>>
    /\ ops = 0
    /\ bench = NoBench
    /\ \E ones \in OnesVecs : \E zeroes \in ZeroesVecs :
           test = [NoTest EXCEPT !.pc = "start", !.ones = ones, !.zeroes = zeroes]

\* let mut gear = Gear::new(); gear.roll(&ones); let digest = gear.digest();
TestRollOnes ==
    /\ test.pc = "start"
    /\ \E gear \in {Gear_roll(Gear_new, AsBuf(test.ones))} :
           test' = [test EXCEPT !.pc = "ones_rolled", !.gear = gear,
                                !.digest = Gear_digest(gear)]
    /\ UNCHANGED <<kind, eng, panicked, last, prev, hist, ops, bench>>

\* let mut gear = Gear::new(); gear.roll(&zeroes);
TestRollZeroes ==
    /\ test.pc = "ones_rolled"
    /\ test' = [test EXCEPT !.pc = "loop", !.i = 0,
                            !.gear = Gear_roll(Gear_new, AsBuf(test.zeroes))]
    /\ UNCHANGED <<kind, eng, panicked, last, prev, hist, ops, bench>>

\* one turn of `for (i, &b) in ones.iter().enumerate()`
TestLoop ==
    /\ test.pc = "loop"
    /\ test.i < test.ones.len
    /\ \E gear \in {Gear_roll_byte(test.gear, test.ones.byte)} :
           IF Gear_digest(gear) = test.digest
           THEN test' = [test EXCEPT !.gear = gear,
                                     !.pc = IF test.i = ExpectedIndex THEN "passed"
                                            ELSE "assert_eq failed"]
           ELSE test' = [test EXCEPT !.gear = gear, !.i = test.i + 1]
    /\ UNCHANGED <<kind, eng, panicked, last, prev, hist, ops, bench>>

\* panic!("matching digest not found")
TestNotFound ==
    /\ test.pc = "loop"
    /\ test.i = test.ones.len
    /\ test' = [test EXCEPT !.pc = "matching digest not found"]
    /\ UNCHANGED <<kind, eng, panicked, last, prev, hist, ops, bench>>

TestNext ==
    \/ TestRollOnes
    \/ TestRollZeroes
    \/ TestLoop
    \/ TestNotFound

TestSpec == TestInit /\ [][TestNext]_vars

-----------------------------------------------------------------------------
(* The vocabulary of the claims, stated apart from the code's masks and loops *)

\* Bup: the low chunk_bits bits of the digest are all 1
BupBoundary(digest, chunk_bits) == \A k \in 0..(chunk_bits - 1) : Bit(digest, k) = 1

\* Gear: the top chunk_bits bits of the digest are all 0
GearBoundary(digest, chunk_bits) ==
    \A k \in (DIGEST_SIZE - chunk_bits)..(DIGEST_SIZE - 1) : Bit(digest, k) = 0

Boundary(k, self) ==
    IF k = "Bup" THEN BupBoundary(Bup_digest(self), self.chunk_bits)
    ELSE GearBoundary(Gear_digest(self), self.chunk_bits)

\* a freshly constructed engine with the given chunk_bits
Fresh(k, chunk_bits) ==
    IF k = "Bup" THEN Bup_new_with_chunk_bits(chunk_bits)
    ELSE Gear_new_with_chunk_bits(chunk_bits)

\* roll_byte called on each of the bytes lo..hi-1 of buf, in order
RECURSIVE RolledFrom(_, _, _, _, _)
RolledFrom(k, self, buf, lo, hi) ==
    IF lo >= hi THEN self
    ELSE IF hi = lo + 1
    THEN (IF k = "Bup" THEN Bup_roll_byte(self, buf[lo + 1])
          ELSE Gear_roll_byte(self, buf[lo + 1]))
    ELSE The({ RolledFrom(k, m, buf, (lo + hi) \div 2, hi)
               : m \in {RolledFrom(k, self, buf, lo, (lo + hi) \div 2)} })

Rolled(k, self, buf) == RolledFrom(k, self, buf, 0, Len(buf))

\* find_chunk of either engine, as a call that returns
FindChunk(k, self, buf) ==
    IF k = "Bup" THEN Bup_find_chunk(self, buf) ELSE Gear_find_chunk(self, buf)

\* the last call was find_chunk and it returned a boundary
FoundChunk == last.op = "find_chunk" /\ panicked = "" /\ last.found

-----------------------------------------------------------------------------
(* C1 *)

\* C1 (no false boundary): when find_chunk reports a boundary at offset i, the
\* engine's boundary predicate holds on the digest after rolling byte i and on
\* no digest after rolling a byte before i.
C1_NoFalseBoundary ==
    FoundChunk =>
        /\ Len(last.prefix) >= 1
        /\ \A j \in 0..(Len(last.prefix) - 1) :
               Boundary(kind, Rolled(kind, last.pre, SubSeq(last.buf, 1, j + 1)))
                   <=> (j = Len(last.prefix) - 1)

\* C1 where the shift amount of Gear's mask is below the word width (every
\* Bup engine, and Gear with chunk_bits >= 1): the claim as stated holds.
C1_NoFalseBoundaryShiftInRange ==
    (FoundChunk /\ ~(kind = "Gear" /\ Gear_find_chunk_overflows(last.pre)))
        => C1_NoFalseBoundary

-----------------------------------------------------------------------------
(* C2 *)

\* the digest of the returned prefix, rolled alone through a fresh engine with
\* the same chunk_bits, satisfies the boundary predicate at its last byte
PrefixAloneAtBoundary ==
    Boundary(kind, Rolled(kind, Fresh(kind, last.pre.chunk_bits), last.prefix))

\* the engine was in its initial rolling state when the last call was made
CalledFresh == last.pre = Fresh(kind, last.pre.chunk_bits)

\* C2 as stated (boundary digest of the prefix, from any engine state): every
\* find_chunk call that returns a boundary returns a prefix whose digest,
\* rolled alone from a fresh engine, satisfies the boundary predicate.
C2_PrefixAloneAnyState == FoundChunk => PrefixAloneAtBoundary

\* C2 amended: the same, for a find_chunk call made on an engine in its
\* initial rolling state (just constructed, just reset, or just after a call
\* that returned a boundary).
C2_PrefixAloneFromFresh == (FoundChunk /\ CalledFresh) => PrefixAloneAtBoundary

\* C2 witness: a boundary found by a Bup engine in its initial state, past the
\* first byte of the buffer
C2_Witness ==
    /\ FoundChunk /\ CalledFresh
    /\ kind = "Bup"
    /\ Len(last.prefix) >= 2

-----------------------------------------------------------------------------
(* C3 *)

\* the last call was find_chunk, it returned, and it found no boundary
NoChunkFound == last.op = "find_chunk" /\ panicked = "" /\ ~last.found

\* C3 (continuation across buffers), as a property of every step that calls
\* find_chunk(b) right after a find_chunk(a) from state S that found nothing:
\* the state between the calls is S with every byte of a rolled in order; the
\* second call finds a boundary exactly when find_chunk(a ++ b) from S does, at
\* the same place of a ++ b; and both runs end in the same engine state.
C3_ContinuationStep ==
    (NoChunkFound /\ last'.op = "find_chunk" /\ panicked' = "") =>
        \E whole \in {FindChunk(kind, last.pre, last.buf \o last'.buf)} :
            /\ eng = Rolled(kind, last.pre, last.buf)
            /\ last'.pre = eng
            /\ last'.found = whole.found
            /\ last'.found =>
                   /\ Len(whole.prefix) = Len(last.buf) + Len(last'.prefix)
                   /\ whole.prefix = last.buf \o last'.prefix
                   /\ whole.suffix = last'.suffix
            /\ eng' = whole.self

C3_Continuation == [][C3_ContinuationStep]_vars

\* C3 witness: a find_chunk that found a boundary past the first byte of its
\* buffer, called right after a find_chunk that consumed a non-empty buffer
\* without finding one
C3_Witness ==
    /\ FoundChunk
    /\ prev.op = "find_chunk" /\ ~prev.found
    /\ Len(hist) = 0
    /\ last.pre # Fresh(kind, last.pre.chunk_bits)
    /\ Len(last.prefix) >= 2

-----------------------------------------------------------------------------
(* C4 *)

\* the last call was a boundary search that returned a boundary
FoundBoundary == last.op \in SearchOps /\ panicked = "" /\ last.found

\* C4, first half (reset on boundary): after any boundary search that returns
\* a boundary the engine equals a freshly constructed engine with the same
\* chunk_bits.
C4_ResetOnBoundary == FoundBoundary => eng = Fresh(kind, last.pre.chunk_bits)

\* C4, second half (the next chunk stands alone), as a property of every step
\* that calls find_chunk right after a search that returned a boundary: the
\* result is that of the same call on a fresh engine, so it depends on no byte
\* before that boundary.
C4_NextChunkStep ==
    (FoundBoundary /\ last'.op = "find_chunk" /\ panicked' = "") =>
        \E alone \in {FindChunk(kind, Fresh(kind, last.pre.chunk_bits), last'.buf)} :
            /\ last'.found = alone.found
            /\ last'.prefix = alone.prefix
            /\ last'.suffix = alone.suffix
            /\ eng' = alone.self

C4_NextChunkAlone == [][C4_NextChunkStep]_vars

\* C4 (reset on boundary): every boundary search that returns a boundary
\* leaves the engine equal to a fresh one with the same chunk_bits, and the
\* find_chunk call that follows behaves as on that fresh engine.
C4_ResetThenAlone == []C4_ResetOnBoundary /\ C4_NextChunkAlone

\* C4 witness: a Gear search by predicate found a boundary from an engine that
\* had rolled bytes before the call
C4_Witness ==
    /\ FoundBoundary
    /\ last.op = "find_chunk_edge_cond"
    /\ last.pre # Fresh(kind, last.pre.chunk_bits)
    /\ eng = Fresh(kind, last.pre.chunk_bits)

-----------------------------------------------------------------------------
(* C5 *)

\* the engine without its chunk_bits
RollingState(k, self) ==
    IF k = "Bup" THEN [self EXCEPT !.chunk_bits = Bup_default.chunk_bits]
    ELSE [self EXCEPT !.chunk_bits = Gear_default.chunk_bits]

InitialRollingState(k) == IF k = "Bup" THEN Bup_default ELSE Gear_default

\* C5 (construction range check): new_with_chunk_bits fails exactly for
\* chunk_bits >= 32 (Bup) and chunk_bits >= 64 (Gear); below that bound it
\* yields an engine with that chunk_bits and the initial rolling state.
C5_RangeCheck ==
    last.op = "new_with_chunk_bits" =>
        \E bound \in {IF kind = "Bup" THEN 32 ELSE 64} :
            /\ (panicked = "assert") <=> (last.arg >= bound)
            /\ (last.arg < bound) =>
                   /\ eng.chunk_bits = last.arg
                   /\ RollingState(kind, eng) = InitialRollingState(kind)

-----------------------------------------------------------------------------
(* C6 *)

\* C6 (totality after construction): on an engine that construction accepted
\* no call fails, and no shift amount reaches the word width.
C6_Total ==
    /\ panicked \in {"", "assert"}
    /\ (kind = "Gear" /\ last.op = "find_chunk") =>
           Gear_find_chunk_shift(last.pre) < DIGEST_SIZE
    /\ (kind = "Bup" /\ last.op \in {"find_chunk", "count_bits"}) =>
           last.pre.chunk_bits < 32

-----------------------------------------------------------------------------
(* C7 *)

\* the byte rolled `age` steps before the newest one since the last reset,
\* zero where fewer bytes have been rolled
WindowByte(age) == IF age < Len(hist) THEN hist[Len(hist) - age] ELSE 0

\* sum over the ages lo..hi-1 of weight * byte, the weight being age + 1 when
\* weighted and 1 otherwise
RECURSIVE WindowSum(_, _, _)
WindowSum(weighted, lo, hi) ==
    IF lo >= hi THEN 0
    ELSE IF hi = lo + 1 THEN (IF weighted THEN lo + 1 ELSE 1) * WindowByte(lo)
    ELSE WindowSum(weighted, lo, (lo + hi) \div 2)
             + WindowSum(weighted, (lo + hi) \div 2, hi)

\* C7 (Bup window invariant): s1 = 64*31 + the sum of the last 64 bytes rolled
\* since the last reset, s2 = 64*63*31 + the sum of age-weight * byte (newest
\* byte weight 1, oldest 64), the window zero-filled in front; the circular
\* buffer holds exactly those bytes, the newest just behind the write offset.
C7_WindowInvariant ==
    (kind = "Bup" /\ panicked = "") =>
        /\ eng.s1 = (64 * 31) + WindowSum(FALSE, 0, 64)
        /\ eng.s2 = (64 * 63 * 31) + WindowSum(TRUE, 0, 64)
        /\ eng.wofs = Len(hist) % 64
        /\ \A age \in 0..63 : eng.window[(eng.wofs + 63 - age) % 64] = WindowByte(age)

\* C7 witness: more than 64 bytes rolled since the last reset, the evicted
\* byte different from the byte that replaced it
C7_Witness ==
    /\ kind = "Bup" /\ panicked = ""
    /\ Len(hist) > 64
    /\ hist[Len(hist) - 64] # hist[Len(hist)]
    /\ hist[Len(hist) - 64] # 0

-----------------------------------------------------------------------------
(* C8 *)

\* the last call was roll
RolledBuffer == last.op = "roll" /\ panicked = ""

\* C8 (bulk and byte-wise rolling agree): roll(buffer) leaves the engine in
\* the state reached by roll_byte on each byte of the buffer in order.
C8_RollIsRollBytes == RolledBuffer => eng = Rolled(kind, last.pre, last.buf)

\* C8 witness: Gear rolled a buffer of two different bytes from a digest that
\* was not zero
C8_Witness ==
    /\ RolledBuffer
    /\ kind = "Gear"
    /\ last.pre.digest # WZero(4)
    /\ Len(last.buf) = 2
    /\ last.buf[1] # last.buf[2]

-----------------------------------------------------------------------------
(* C9 *)

\* C9 (reset restores the initial state): after reset() every rolling-state
\* field equals that of a freshly constructed engine, so does the digest, and
\* chunk_bits is what it was.
C9_ResetRestores ==
    last.op = "reset" =>
        /\ eng.chunk_bits = last.pre.chunk_bits
        /\ IF kind = "Bup"
           THEN /\ eng.s1 = Bup_new.s1
                /\ eng.s2 = Bup_new.s2
                /\ \A i \in 0..63 : eng.window[i] = Bup_new.window[i]
                /\ eng.wofs = Bup_new.wofs
                /\ Bup_digest(eng) = Bup_digest(Bup_new)
           ELSE /\ eng.digest = Gear_new.digest
                /\ Gear_digest(eng) = Gear_digest(Gear_new)

\* C9 witness: reset of a Bup engine with a chunk_bits other than the default
\* that had rolled bytes
C9_Witness ==
    /\ last.op = "reset"
    /\ kind = "Bup"
    /\ last.pre.chunk_bits # Bup_new.chunk_bits
    /\ last.pre.wofs # 0
    /\ last.pre.s1 # Bup_new.s1

-----------------------------------------------------------------------------
(* C10 *)

\* the digest has its low chunk_bits bits set, exactly k further 1-bits
\* directly above them, and a 0 bit after those
OnesAbove(digest, chunk_bits, k) ==
    /\ chunk_bits + k <= 31
    /\ \A j \in 0..(chunk_bits + k - 1) : Bit(digest, j) = 1
    /\ Bit(digest, chunk_bits + k) = 0

CountedBits == last.op = "count_bits" /\ panicked = ""

\* C10 as stated (count_bits off-by-one, every k >= 0): on such a digest
\* count_bits() returns chunk_bits + k - 1.
C10_CountBitsAnyK ==
    CountedBits =>
        \A k \in 0..31 :
            OnesAbove(Bup_digest(last.pre), last.pre.chunk_bits, k)
                => last.ret = last.pre.chunk_bits + k - 1

\* C10 amended: the same for every k >= 1.
C10_CountBitsFromOne ==
    CountedBits =>
        \A k \in 1..31 :
            OnesAbove(Bup_digest(last.pre), last.pre.chunk_bits, k)
                => last.ret = last.pre.chunk_bits + k - 1

\* C10 witness: count_bits on a digest with its low chunk_bits >= 1 bits set
\* and at least two further 1-bits above them
C10_Witness ==
    /\ CountedBits
    /\ last.pre.chunk_bits >= 1
    /\ \E k \in 2..31 : OnesAbove(Bup_digest(last.pre), last.pre.chunk_bits, k)

-----------------------------------------------------------------------------
(* C11, under TestSpec *)

\* the vectors are those of the test: ones = vec![0x1; 1024] and
\* zeroes = vec![0x0; 1024]
ScenarioOfTest == test.ones = Vec(1, 1024) /\ test.zeroes = Vec(0, 1024)

\* the loop has ended on a digest equal to the recorded one, at index test.i
Matched == test.pc \in {"passed", "assert_eq failed"}

\* C11 (Gear effective window is exactly 64 bytes): whatever was rolled
\* before, once 64 equal bytes have been rolled the digest is the one a fresh
\* engine has after at least 64 such bytes, so the loop of the test finds a
\* match at index 63 at the latest; and with the vectors of the test the
\* first match is at index 63 and at no earlier index.
C11_EffectiveWindow ==
    /\ (test.ones.len >= 64) =>
           /\ test.pc # "matching digest not found"
           /\ Matched => test.i <= 63
           /\ (test.pc = "loop" /\ test.i = 64) => Gear_digest(test.gear) = test.digest
    /\ ScenarioOfTest =>
           /\ test.pc # "assert_eq failed"
           /\ test.pc = "passed" => test.i = 63

\* C11 witness: the test with its own vectors has passed, the match found
\* after 64 bytes of 0x1
C11_Witness ==
    /\ ScenarioOfTest
    /\ test.pc = "passed"
    /\ test.i = 63

-----------------------------------------------------------------------------
(* C12 *)

\* the last call was find_chunk on an empty buffer
EmptyInput == last.op = "find_chunk" /\ last.buf = <<>>

\* C12 (empty input): find_chunk on an empty buffer, on any engine that
\* construction accepted, does not fail, returns no boundary and leaves every
\* field of the engine as it was.
C12_EmptyInput ==
    EmptyInput =>
        /\ panicked = ""
        /\ ~last.found
        /\ eng = last.pre

\* C12 where the shift amount of Gear's mask is below the word width (every
\* Bup engine, and Gear with chunk_bits >= 1): the claim as stated holds.
C12_EmptyInputShiftInRange ==
    (EmptyInput /\ ~(kind = "Gear" /\ Gear_find_chunk_overflows(last.pre)))
        => C12_EmptyInput

-----------------------------------------------------------------------------
(* C13 *)

\* C13 (the split is a partition of the buffer): a boundary search that
\* returns (prefix, suffix) returns a non-empty prefix buf[0..=i] and the
\* suffix buf[i+1..]; their lengths add up to the buffer's and prefix followed
\* by suffix is the buffer, byte for byte.
C13_SplitIsPartition ==
    FoundBoundary =>
        \E i \in {Len(last.prefix) - 1} :
            /\ i \in 0..(Len(last.buf) - 1)
            /\ last.prefix = [j \in 1..(i + 1) |-> last.buf[j]]
            /\ last.suffix = [j \in 1..(Len(last.buf) - (i + 1)) |-> last.buf[j + i + 1]]
            /\ Len(last.prefix) + Len(last.suffix) = Len(last.buf)
            /\ last.prefix \o last.suffix = last.buf

\* C13 witness: a Gear search split a buffer into a prefix and a suffix that
\* both hold bytes, and the two bytes differ
C13_Witness ==
    /\ FoundBoundary
    /\ kind = "Gear"
    /\ Len(last.prefix) >= 1
    /\ Len(last.suffix) >= 1
    /\ last.prefix[1] # last.suffix[1]

-----------------------------------------------------------------------------
(* C14 *)

\* the last call returned what res holds and left the engine as res does
SameOutcome(res) ==
    /\ last.found = res.found
    /\ last.prefix = res.prefix
    /\ last.suffix = res.suffix
    /\ eng = res.self

\* C14 (Gear's three boundary searches agree): find_chunk(buf) returns, with
\* the result and the engine state that find_chunk_mask(buf, mask) gives for
\* mask = the top chunk_bits bits, and that find_chunk_edge_cond(buf, cond)
\* gives for cond = (digest & mask == 0), from the same engine state.
C14_SearchesAgree ==
    (kind = "Gear" /\ last.op = "find_chunk") =>
        \E byMask \in {Gear_find_chunk_mask(last.pre, last.buf,
                                            TopMask(last.pre.chunk_bits))} :
        \E byCond \in {Gear_find_chunk_edge_cond(last.pre, last.buf, "top_bits_zero")} :
            /\ panicked = ""
            /\ byMask = byCond
            /\ SameOutcome(byMask)

\* C14 where the shift amount of find_chunk's mask is below the word width
\* (chunk_bits >= 1): the claim as stated holds.
C14_SearchesAgreeShiftInRange ==
    ~(kind = "Gear" /\ Gear_find_chunk_overflows(last.pre)) => C14_SearchesAgree

-----------------------------------------------------------------------------
(* C16 *)

\* C16 (Bup window offset stays in range): wofs is in 0..=63 and equals the
\* number of bytes rolled since construction or the last reset, modulo 64; so
\* roll_byte reads and writes inside the window, and the slot it reads the
\* evicted byte from is the slot it overwrites with the new byte.
C16_WindowOffsetInRange ==
    (kind = "Bup" /\ panicked = "") =>
        /\ eng.wofs \in 0..63
        /\ DOMAIN eng.window = 0..63
        /\ eng.wofs = Len(hist) % 64
        /\ (last.op = "roll_byte") =>
               /\ last.pre.wofs \in DOMAIN last.pre.window
               /\ eng.window = [last.pre.window EXCEPT ![last.pre.wofs] = last.arg]
               /\ eng.s1 = last.pre.s1 + last.arg - last.pre.window[last.pre.wofs]

\* C16 witness: roll_byte after the write offset has wrapped around, evicting
\* a byte that is not zero and differs from the new one
C16_Witness ==
    /\ kind = "Bup" /\ panicked = ""
    /\ last.op = "roll_byte"
    /\ Len(hist) > 64
    /\ last.pre.wofs = 0
    /\ last.pre.window[0] # 0
    /\ last.pre.window[0] # last.arg

-----------------------------------------------------------------------------
(* C17 *)

\* largest value of the narrowest usize that holds the constants of Bup
\* (32 bits), as far as the integers of the model reach
InWord(v) == v \in 0..2147483647

\* C17 (Bup accumulators never wrap): 64*31 <= s1 <= 64*31 + 64*255 and
\* 64*63*31 <= s2 <= 64*63*31 + 255*(64*65/2) in every state, no call ends on
\* an arithmetic overflow, and the four intermediate values of add() stay
\* inside the word, so that += and -= compute what wrapping arithmetic does.
C17_AccumulatorsNeverWrap ==
    (kind = "Bup") =>
        /\ panicked # "arith"
        /\ (panicked = "") =>
               /\ eng.s1 >= 64 * 31
               /\ eng.s1 <= (64 * 31) + (64 * 255)
               /\ eng.s2 >= 64 * 63 * 31
               /\ eng.s2 <= (64 * 63 * 31) + (255 * ((64 * 65) \div 2))
        /\ (last.op = "roll_byte") =>
               \E st \in {Bup_add_steps(last.pre, last.pre.window[last.pre.wofs], last.arg)} :
                   /\ \A k \in 1..4 : InWord(st[k])
                   /\ eng.s1 = st[2] /\ AsU32(eng.s1) = AsU32(st[2])
                   /\ eng.s2 = st[4] /\ AsU32(eng.s2) = AsU32(st[4])

\* C17 witness: every byte of the window is 255, s1 and s2 at their largest,
\* and one more 255 has been rolled
C17_Witness ==
    /\ kind = "Bup" /\ panicked = ""
    /\ last.op = "roll_byte"
    /\ last.pre.s1 = (64 * 31) + (64 * 255)
    /\ eng.s2 = (64 * 63 * 31) + (255 * ((64 * 65) \div 2))

-----------------------------------------------------------------------------
(* C15, under BenchSpec *)

\* the chunks lo+1..hi of the sequence, one after the other
RECURSIVE Concat(_, _, _)
Concat(chunks, lo, hi) ==
    IF lo >= hi THEN <<>>
    ELSE IF hi = lo + 1 THEN chunks[hi]
    ELSE Concat(chunks, lo, (lo + hi) \div 2) \o Concat(chunks, (lo + hi) \div 2, hi)

\* what the loop has done so far is sound: every returned prefix has at least
\* one byte, there are at most n of them, and they and the unconsumed
\* remainder concatenate to the original buffer
BenchProgress ==
    /\ \A j \in 1..Len(bench.chunks) : Len(bench.chunks[j]) >= 1
    /\ Len(bench.chunks) <= Len(bench.v)
    /\ Concat(bench.chunks, 0, Len(bench.chunks)) \o bench.buf = bench.v

\* C15 (the chunking loop makes progress and terminates), the part a finite
\* run refutes: the loop never ends on a failure of find_chunk, only on "no
\* boundary", and up to there every prefix has at least one byte, at most n
\* calls succeed, and the prefixes and the remainder make up the buffer.
C15_LoopProgress ==
    /\ bench.pc # "panicked"
    /\ BenchProgress

\* the shift amount of the mask of the loop's engine is below the word width
BenchShiftInRange == ~(bench.kind = "Gear" /\ Gear_find_chunk_overflows(bench.cdc))

\* C15 where the shift amount of Gear's mask is below the word width (every
\* Bup engine, and Gear with chunk_bits >= 1): the loop makes progress ...
C15_LoopProgressShiftInRange == BenchShiftInRange => C15_LoopProgress

\* ... and, under BenchFairSpec, ends with no boundary.
C15_LoopEndsShiftInRange == BenchShiftInRange ~> (bench.pc = "done")

\* a loop that returned as many chunks as the buffer has bytes, more than one,
\* and then ended
C15_Reached ==
    /\ bench.pc = "done"
    /\ Len(bench.v) >= 2
    /\ Len(bench.chunks) = Len(bench.v)

====
